---- MODULE Spec2Model ----
(***************************************************************************)
(* Model of the exposure decision of exposure_wind_lookup.py:              *)
(* decide_exposure and the functions it calls (overpass,                   *)
(* fetch_water_polys, distance_to_water_boundary_m,                        *)
(* sector_over_water_fetch_m, building_density_per_km2, landcover_mix,     *)
(* roughness_index).                                                       *)
(*                                                                         *)
(* Units.  Lengths are integers in millimetres (182.88 m = 182880).        *)
(* Azimuths are reported in tenths of a degree.  The building density is   *)
(* the rational num/den buildings per km2, reported in tenths.  A          *)
(* land-cover proportion is the rational num[k]/den, the roughness index   *)
(* the rational num/den counted in hundredths (75/1 is 0.75), reported in  *)
(* hundredths.  Python's round is RoundDiv.                                *)
(*                                                                         *)
(* The geometry of a water topology is an input of the model: the distance *)
(* of the site to its boundary, and for each azimuth the set of sample     *)
(* steps (1 is 200 m out, 2 is 400 m out, ...) that the topology contains. *)
(***************************************************************************)
EXTENDS Integers, Sequences, FiniteSets, TLC

VARIABLES
    pc,                 \* position inside decide_exposure
    building_height_ft, \* argument of decide_exposure
    sectors,            \* argument of decide_exposure
    water_polys,        \* "None" or "topology" (line 380)
    inland_limit_m,     \* line 383, in mm
    d_water_m,          \* line 385, in mm, NoDistance for None
    i,                  \* loop index of line 391
    fetch_m,            \* line 393, in mm
    scan,               \* samples of the last sector_over_water_fetch_m call
    sector_results,     \* line 388
    qualifies_D,        \* line 389
    dens,               \* line 406
    mix,                \* line 407
    r_index,            \* line 408
    exposure,           \* line 411
    notes,              \* line 410
    result,             \* <<>> or <<the returned dict>>
    outcome,            \* "none", "returned" or "raised"
    error,              \* the exception that left decide_exposure, or "none"
    requests,           \* the overpass calls made so far
    input,              \* the response a function applied on its own is given
    polys,              \* line 157, when fetch_water_polys is applied on its own
    radius_m,           \* argument of building_density_per_km2, in units of 100 m
    pt,                 \* lines 211 and 230: the point looked at, <<lat, lon>>
    contained,          \* line 230: water_polys.contains of that point
    env,                \* what the services answer during one analyze_one_core call
    out,                \* line 516: <<>> or <<the dict analyze_one_core returns>>
    addrs,              \* line 691: the addresses, each with what the services answer for it
    rows,               \* line 688
    pd,                 \* line 52: pandas can be imported
    csv_out,            \* args.csv_out is given
    written,            \* lines 720-731: what main has written
    fpa_in,             \* the arguments of run_once and what it finds on disk
    fpa_result,         \* site_api.py line 117: what run_once returned
    fpa_zone_results    \* site_api.py lines 127-130

vars == <<pc, building_height_ft, sectors, water_polys, inland_limit_m,
          d_water_m, i, fetch_m, scan, sector_results, qualifies_D, dens,
          mix, r_index, exposure, notes, result, outcome, error, requests,
          input, polys, radius_m, pt, contained,
          env, out, addrs, rows, pd, csv_out, written,
          fpa_in, fpa_result, fpa_zone_results>>

\* what the functions applied on their own are given
frag_in == <<input, radius_m, pt>>

\* the state of analyze_one_core and of the CSV batch mode of main
batch == <<env, out, addrs, rows, pd, csv_out, written>>

\* the state of the functions applied on their own
parts == <<frag_in, polys, contained, batch,
           fpa_in, fpa_result, fpa_zone_results>>


\* the state of decide_exposure
decide_state == <<building_height_ft, sectors, water_polys, inland_limit_m,
                  d_water_m, i, fetch_m, scan, sector_results, qualifies_D,
                  dens, mix, r_index, exposure, notes, result, requests>>

-----------------------------------------------------------------------------
(* Bounds of the model *)

MaxSectors == 3
MaxWays == 2
MaxAddrs == 2

(* Inputs *)

Heights == {30, 40}
SectorCounts == 0 .. MaxSectors
Dists == {182880, 182980}
BuildingCounts == {0, 402, 403}

NoDistance == -1

-----------------------------------------------------------------------------
(* Arithmetic helpers *)

Max(a, b) == IF a >= b THEN a ELSE b

RECURSIVE Gcd(_, _)
Gcd(a, b) == IF b = 0 THEN a ELSE Gcd(b, a % b)

RECURSIVE SumOver(_, _)
SumOver(f, S) ==
    IF S = {} THEN 0
    ELSE LET k == CHOOSE x \in S : TRUE IN f[k] + SumOver(f, S \ {k})

RECURSIVE GcdOver(_, _)
GcdOver(f, S) ==
    IF S = {} THEN 0
    ELSE LET k == CHOOSE x \in S : TRUE IN Gcd(f[k], GcdOver(f, S \ {k}))

\* round(num/den) to the nearest integer, ties to even, for num >= 0, den > 0
RoundDiv(num, den) ==
    LET q == num \div den
        r == num % den
    IN  IF 2 * r < den THEN q
        ELSE IF 2 * r > den THEN q + 1
        ELSE IF q % 2 = 0 THEN q ELSE q + 1

\* round(x, 1) of a length in mm, given back in mm
Round1Mm(x) == RoundDiv(x, 100) * 100

-----------------------------------------------------------------------------
(* overpass *)

Outcomes == {"ok", "timeout", "connection_error", "http_error", "invalid_json"}

EmptyResult == [elements |-> "empty"]

\* The try block of overpass: what the three statements of lines 118-120 do.
overpass_try(net, payload) ==
    IF net = "ok" THEN [raised |-> FALSE, data |-> payload]
    ELSE [raised |-> TRUE, data |-> EmptyResult]

\* overpass with an except clause that catches the errors of the transport
\* only, not the ValueError of r.json()
overpass_TransportOnly(net, payload) ==
    LET t == overpass_try(net, payload)
    IN  IF t.raised /\ net \in {"timeout", "connection_error", "http_error"}
        THEN [raised |-> FALSE, data |-> EmptyResult]
        ELSE t

\* lines 117-125: requests.Timeout, requests.ConnectionError, the HTTPError
\* of raise_for_status and the ValueError of r.json() are all caught by
\* "except Exception" and turned into the empty result.
overpass(net, payload) ==
    LET t == overpass_try(net, payload)
    IN  IF t.raised /\ net \in {"timeout", "connection_error", "http_error", "invalid_json"}
        THEN [raised |-> FALSE, data |-> EmptyResult]
        ELSE t

\* What the service sends back: a body when the request succeeds, nothing
\* that can be read as one otherwise.
NoBody == [elements |-> "unreadable"]
Responses(net, payloads) == IF net = "ok" THEN payloads ELSE {NoBody}

\* data["elements"] is the empty list
NoElements(data) ==
    CASE data.elements = "empty" -> TRUE
      [] data.elements = "ids"   -> data.ways = 0
      [] data.elements = "body"  ->
            data.ways = <<>> /\ data.rels = <<>> /\ data.nodes_complete

\* One entry of the record of the overpass calls: the query, what the network
\* did, and what overpass gave back to its caller.
Request(query, net, r) ==
    [query |-> query, net |-> net, raised |-> r.raised,
     empty |-> NoElements(r.data),
     readable |-> (r.data.elements = "body" => r.data.nodes_complete)]

\* line 118: the request of one overpass call is posted once
Send(sent, query, net, r) == Append(sent, Request(query, net, r))

NoInput == [elements |-> "none"]

\* no function is applied on its own; the radius is the default of line 324
FragIdle ==
    /\ input = NoInput
    /\ polys = <<>>
    /\ radius_m = 8
    /\ pt = <<0, 0>>
    /\ contained = FALSE

\* no analysis and no batch is running
BatchIdle ==
    /\ env = [geo |-> "none"]
    /\ out = <<>>
    /\ addrs = <<>>
    /\ rows = <<>>
    /\ pd = FALSE
    /\ csv_out = FALSE
    /\ written = [kind |-> "none", rows |-> <<>>]

\* run_once is not running
FastenerIdle ==
    /\ fpa_in = [panel |-> "none"]
    /\ fpa_result = [status |-> "none"]
    /\ fpa_zone_results = <<>>

-----------------------------------------------------------------------------
(* fetch_water_polys *)

SeqsUpTo(S, n) == UNION { [1 .. k -> S] : k \in 0 .. n }

\* The node elements of a response, id |-> (lat, lon): the corners of a
\* square (1 to 4), a node that lies where node 1 lies (5), the corners of a
\* second square beside the first (11 to 14) and the corners of a small
\* square inside the first (21 to 24).  A way may also refer to node 9,
\* which is not in the response.
ResponseNodes ==
    [n \in (1 .. 5) \cup (11 .. 14) \cup (21 .. 24) |->
        CASE n = 1  -> <<0, 0>>
          [] n = 2  -> <<0, 10>>
          [] n = 3  -> <<10, 10>>
          [] n = 4  -> <<10, 0>>
          [] n = 5  -> <<0, 0>>
          [] n = 11 -> <<0, 20>>
          [] n = 12 -> <<0, 30>>
          [] n = 13 -> <<10, 30>>
          [] n = 14 -> <<10, 20>>
          [] n = 21 -> <<2, 2>>
          [] n = 22 -> <<2, 4>>
          [] n = 23 -> <<4, 4>>
          [] n = 24 -> <<4, 2>>]

Tags(natural, landuse) == [natural |-> natural, landuse |-> landuse]

\* A way element: its tags, its node references and, of the polygon that
\* shapely makes of its points, whether it is valid and not empty, and its
\* area.  The id of a way is its place among the ways of the response.
Way(tags, nodes, valid, area) ==
    [tags |-> tags, nodes |-> nodes, valid |-> valid, area |-> area]

WaterWay(nodes, valid) == Way(Tags("water", "none"), nodes, valid, 1)

WaterWayKinds ==
    { WaterWay(<<1, 2, 3, 4, 1>>, TRUE),
      WaterWay(<<1, 2, 3, 4, 2>>, TRUE),
      WaterWay(<<1, 2, 1>>, TRUE),
      WaterWay(<<1, 2, 3, 4, 1>>, FALSE) }

\* A response to "out body": its node elements (do they all carry lat and
\* lon?), its way elements and its relation elements.
BodyRels(complete, ways, rels) ==
    [elements |-> "body", nodes_complete |-> complete, ways |-> ways,
     rels |-> rels]

Body(complete, ways) == BodyRels(complete, ways, <<>>)

WaterPayloads ==
    { Body(TRUE, w) : w \in SeqsUpTo(WaterWayKinds, MaxWays) }
        \cup { Body(FALSE, <<>>) }

\* lines 162 and 183 (and 296): the points of the node references that resolve
RECURSIVE Resolve(_, _)
Resolve(nds, nodes) ==
    IF nds = <<>> THEN <<>>
    ELSE (IF Head(nds) \in DOMAIN nodes THEN << nodes[Head(nds)] >> ELSE <<>>)
            \o Resolve(Tail(nds), nodes)

\* a ring is any way of four points
ClosedRing_AnyFour(w) == Len(Resolve(w.nodes, ResponseNodes)) >= 4

\* lines 163 and 184 (and 297): a way is a closed ring
ClosedRing(w) ==
    LET pts == Resolve(w.nodes, ResponseNodes)
    IN  Len(pts) >= 4 /\ pts[1] = pts[Len(pts)]

\* the points of a way with a closed ring
RingPoints(w) == Resolve(w.nodes, ResponseNodes)

\* the least and the greatest of the coordinate c (1 lat, 2 lon) of points
Least(pts, c) ==
    CHOOSE v \in { pts[k][c] : k \in DOMAIN pts } :
        \A k \in DOMAIN pts : v <= pts[k][c]
Greatest(pts, c) ==
    CHOOSE v \in { pts[k][c] : k \in DOMAIN pts } :
        \A k \in DOMAIN pts : v >= pts[k][c]

\* the ring of h lies inside the ring of o (the rings are rectangles along
\* the axes or parts of them)
RingWithin(h, o) ==
    \A k \in DOMAIN h : \A c \in {1, 2} :
        Least(o, c) < h[k][c] /\ h[k][c] < Greatest(o, c)

\* the rings of a and b lie apart
RingsApart(a, b) ==
    \E c \in {1, 2} :
        Greatest(a, c) < Least(b, c) \/ Greatest(b, c) < Least(a, c)

\* poly.is_valid and not poly.is_empty of Polygon(outer, holes): the rings
\* are valid, every hole lies inside the outer ring and the holes lie apart
ValidPolygon(ways, outer, holes) ==
    /\ ways[outer].valid
    /\ \A k \in DOMAIN holes :
        /\ ways[holes[k]].valid
        /\ RingWithin(RingPoints(ways[holes[k]]), RingPoints(ways[outer]))
    /\ \A k, l \in DOMAIN holes :
        k # l => RingsApart(RingPoints(ways[holes[k]]), RingPoints(ways[holes[l]]))

\* a polygon of polys: the way of its outer ring, the ways of its holes, and
\* the loop that made it
Polygon(outer, holes, via) == [outer |-> outer, holes |-> holes, via |-> via]

\* the polygons of the ways without the test of poly.is_valid
RECURSIVE WaterPolysOfWays_KeepInvalid(_, _)
WaterPolysOfWays_KeepInvalid(ways, k) ==
    IF k > Len(ways) THEN <<>>
    ELSE (IF ClosedRing(ways[k])
          THEN << Polygon(k, <<>>, "way") >> ELSE <<>>)
            \o WaterPolysOfWays_KeepInvalid(ways, k + 1)

\* lines 160-169: the polygons of the ways from way k on
RECURSIVE WaterPolysOfWays(_, _)
WaterPolysOfWays(ways, k) ==
    IF k > Len(ways) THEN <<>>
    ELSE (IF ClosedRing(ways[k]) /\ ValidPolygon(ways, k, <<>>)
          THEN << Polygon(k, <<>>, "way") >> ELSE <<>>)
            \o WaterPolysOfWays(ways, k + 1)

\* lines 177-190: the ways of the members of relation r that have the role,
\* in the order of the members
RECURSIVE MemberRings(_, _, _, _)
MemberRings(ways, members, role, k) ==
    IF k > Len(members) THEN <<>>
    ELSE LET m == members[k]
         IN  (IF /\ m.type = "way"
                 /\ m.ref \in DOMAIN ways
                 /\ ClosedRing(ways[m.ref])
                 /\ m.role = role
              THEN << m.ref >> ELSE <<>>)
                \o MemberRings(ways, members, role, k + 1)

\* lines 192-197: one polygon for each outer ring, from outer ring k on; all
\* the inner rings of the relation are the holes of each of them
RECURSIVE OuterPolys(_, _, _, _)
OuterPolys(ways, outers, inners, k) ==
    IF k > Len(outers) THEN <<>>
    ELSE (IF ValidPolygon(ways, outers[k], inners)
          THEN << Polygon(outers[k], inners, "relation") >> ELSE <<>>)
            \o OuterPolys(ways, outers, inners, k + 1)

\* lines 172-199: the polygons of the relations from relation k on
RECURSIVE WaterPolysOfRels(_, _, _)
WaterPolysOfRels(ways, rels, k) ==
    IF k > Len(rels) THEN <<>>
    ELSE (IF rels[k].type \in {"multipolygon", "boundary"}
          THEN OuterPolys(ways,
                          MemberRings(ways, rels[k].members, "outer", 1),
                          MemberRings(ways, rels[k].members, "inner", 1), 1)
          ELSE <<>>)
            \o WaterPolysOfRels(ways, rels, k + 1)

\* line 153 (and 282): the dict comprehension reads el["lat"] and el["lon"]
\* of every node element, a KeyError when one has none
NodesRaise(data) ==
    IF data = EmptyResult THEN FALSE ELSE ~data.nodes_complete

\* lines 157-199: the list polys
AssemblePolys(data) ==
    IF data = EmptyResult THEN <<>>
    ELSE WaterPolysOfWays(data.ways, 1) \o WaterPolysOfRels(data.ways, data.rels, 1)

\* fetch_water_polys giving back an empty topology instead of None
fetch_water_polys_Always(data) == "topology"

\* lines 138-205
fetch_water_polys(data) ==
    IF AssemblePolys(data) = <<>> THEN "None" ELSE "topology"

-----------------------------------------------------------------------------
(* unary_union(polys).contains and .boundary.distance, for polygons whose  *)
(* rings are rectangles along the axes and points of whole coordinates, in *)
(* thousandths of a degree                                                 *)

\* p lies strictly inside the ring
PointInRing(p, ring) ==
    \A c \in {1, 2} : Least(ring, c) < p[c] /\ p[c] < Greatest(ring, c)

\* p lies inside the ring or on it
PointOnOrInRing(p, ring) ==
    \A c \in {1, 2} : Least(ring, c) <= p[c] /\ p[c] <= Greatest(ring, c)

\* p lies in the interior of the polygon: inside its outer ring and in none
\* of its holes
PolygonContains(ways, poly, p) ==
    /\ PointInRing(p, RingPoints(ways[poly.outer]))
    /\ \A h \in DOMAIN poly.holes :
        ~PointOnOrInRing(p, RingPoints(ways[poly.holes[h]]))

\* lines 203-205 and 230: the union of the polygons contains p
Contains(ways, ps, p) ==
    \E j \in DOMAIN ps : PolygonContains(ways, ps[j], p)

\* the points of whole coordinates on the ring
RingLattice(ring) ==
    LET lo == << Least(ring, 1), Least(ring, 2) >>
        hi == << Greatest(ring, 1), Greatest(ring, 2) >>
    IN  { << x, y >> : x \in {lo[1], hi[1]}, y \in lo[2] .. hi[2] }
            \cup { << x, y >> : x \in lo[1] .. hi[1], y \in {lo[2], hi[2]} }

\* the rings of the polygons, outer rings and holes
RingsOf(ways, ps) ==
    { RingPoints(ways[ps[j].outer]) : j \in DOMAIN ps }
        \cup UNION { { RingPoints(ways[ps[j].holes[h]]) : h \in DOMAIN ps[j].holes } :
                        j \in DOMAIN ps }

\* line 213: the boundary of the union, the points of the rings that are in
\* the interior of no polygon
Boundary(ways, ps) ==
    { q \in UNION { RingLattice(r) : r \in RingsOf(ways, ps) } :
        ~Contains(ways, ps, q) }

\* the square of the distance between two points
Dist2(p, q) == (p[1] - q[1]) * (p[1] - q[1]) + (p[2] - q[2]) * (p[2] - q[2])

\* the whole part of the square root
Isqrt(n) == CHOOSE r \in 0 .. 64 : r * r <= n /\ n < (r + 1) * (r + 1)

\* line 213: a thousandth of a degree in mm
MmPerUnit == 111000

\* the distance to the topology itself, 0 for a point in the water
distance_to_water_boundary_m_ToWater(p, topology, ways, ps) ==
    IF topology = "None" THEN NoDistance
    ELSE IF Contains(ways, ps, p) THEN 0
    ELSE LET ds == { Dist2(p, q) : q \in Boundary(ways, ps) }
             nearest == CHOOSE d \in ds : \A o \in ds : d <= o
         IN  Isqrt(nearest) * MmPerUnit

\* lines 208-213: the distance to the nearest point of the boundary, in mm
distance_to_water_boundary_m(p, topology, ways, ps) ==
    IF topology = "None" THEN NoDistance
    ELSE LET ds == { Dist2(p, q) : q \in Boundary(ways, ps) }
             nearest == CHOOSE d \in ds : \A o \in ds : d <= o
         IN  Isqrt(nearest) * MmPerUnit

-----------------------------------------------------------------------------
(* sector_over_water_fetch_m *)

step_m == 200000
max_check_m == 10000000
FetchThreshold == 1609000

NumSteps(max_check) == max_check \div step_m

\* The samples of one azimuth that lie inside the topology: water up to step
\* a, and, when resume holds, water again from step a+2 on.
Profile(a, resume) ==
    (1 .. a) \cup (IF resume THEN (a + 2) .. NumSteps(max_check_m) ELSE {})

Profiles ==
    { Profile(a, FALSE) : a \in {0, 8, 9, NumSteps(max_check_m)} }
        \cup { Profile(a, TRUE) : a \in {0, 8, 9} }

\* the loop with "continue" in the place of "break"
RECURSIVE ScanFrom_Continue(_, _, _, _, _)
ScanFrom_Continue(k, num_steps, inside, over_water, tested) ==
    IF k > num_steps THEN [fetch |-> over_water, tested |-> tested]
    ELSE IF k \in inside
         THEN ScanFrom_Continue(k + 1, num_steps, inside, k * step_m, tested \cup {k})
         ELSE ScanFrom_Continue(k + 1, num_steps, inside, over_water, tested \cup {k})

\* lines 228-234: the loop over the steps from step k on
RECURSIVE ScanFrom(_, _, _, _, _)
ScanFrom(k, num_steps, inside, over_water, tested) ==
    IF k > num_steps THEN [fetch |-> over_water, tested |-> tested]
    ELSE IF k \in inside
         THEN ScanFrom(k + 1, num_steps, inside, k * step_m, tested \cup {k})
         ELSE [fetch |-> over_water, tested |-> tested \cup {k}]

\* the shore taken halfway between the last sample over water and the first
\* one on land
sector_over_water_fetch_m_Halfway(max_check, topology, inside) ==
    IF topology = "None" THEN [fetch |-> 0, tested |-> {}]
    ELSE LET s == ScanFrom(1, NumSteps(max_check), inside, 0, {})
         IN  [fetch |-> IF s.fetch < NumSteps(max_check) * step_m
                        THEN s.fetch + step_m \div 2 ELSE s.fetch,
              tested |-> s.tested]

\* lines 216-235
sector_over_water_fetch_m(max_check, topology, inside) ==
    IF topology = "None" THEN [fetch |-> 0, tested |-> {}]
    ELSE ScanFrom(1, NumSteps(max_check), inside, 0, {})

NoScan == [inside |-> {}, fetch |-> 0, tested |-> {}]

-----------------------------------------------------------------------------
(* landcover_mix, roughness_index *)

Labels == {"forest", "farmland", "meadow", "residential", "industrial", "commercial"}

LANDCOVER_TAGS ==
    << [name |-> "forest",      key |-> "natural", value |-> "wood"],
       [name |-> "forest",      key |-> "landuse", value |-> "forest"],
       [name |-> "farmland",    key |-> "landuse", value |-> "farmland"],
       [name |-> "meadow",      key |-> "landuse", value |-> "meadow"],
       [name |-> "residential", key |-> "landuse", value |-> "residential"],
       [name |-> "industrial",  key |-> "landuse", value |-> "industrial"],
       [name |-> "commercial",  key |-> "landuse", value |-> "commercial"] >>

\* ROUGHNESS_SCORE in hundredths
ROUGHNESS_SCORE ==
    [k \in Labels |->
        CASE k = "industrial"  -> 100
          [] k = "commercial"  -> 95
          [] k = "residential" -> 90
          [] k = "forest"      -> 80
          [] k = "meadow"      -> 50
          [] k = "farmland"    -> 40]

LcWay(natural, landuse, closed, area) ==
    Way(Tags(natural, landuse),
        IF closed THEN <<1, 2, 3, 4, 1>> ELSE <<1, 2, 3, 4, 2>>,
        TRUE, area)

LcWayKinds ==
    { LcWay("none", "residential", TRUE, 2),
      LcWay("wood", "none", TRUE, 1),
      LcWay("none", "industrial", TRUE, 1),
      LcWay("none", "meadow", TRUE, 1),
      LcWay("none", "grass", TRUE, 1),
      LcWay("none", "residential", FALSE, 2) }

LcPayloads ==
    { Body(TRUE, w) : w \in SeqsUpTo(LcWayKinds, MaxWays) }
        \cup { Body(FALSE, <<>>) }

\* the last entry of LANDCOVER_TAGS whose criteria match, 0 if none
RECURSIVE FirstMatch_Last(_, _)
FirstMatch_Last(tags, k) ==
    IF k > Len(LANDCOVER_TAGS) THEN 0
    ELSE LET later == FirstMatch_Last(tags, k + 1)
         IN  IF later # 0 THEN later
             ELSE IF tags[LANDCOVER_TAGS[k].key] = LANDCOVER_TAGS[k].value THEN k
             ELSE 0

\* lines 289-292: first entry of LANDCOVER_TAGS whose criteria match, 0 if none
RECURSIVE FirstMatch(_, _)
FirstMatch(tags, k) ==
    IF k > Len(LANDCOVER_TAGS) THEN 0
    ELSE IF tags[LANDCOVER_TAGS[k].key] = LANDCOVER_TAGS[k].value THEN k
    ELSE FirstMatch(tags, k + 1)

\* lines 286-305: what way w adds to the total of label
AreaFor(w, label) ==
    LET m == FirstMatch(w.tags, 1)
    IN  IF m # 0 /\ LANDCOVER_TAGS[m].name = label /\ ClosedRing(w) /\ w.valid
        THEN Max(0, w.area) ELSE 0

RECURSIVE SumAreas(_, _, _)
SumAreas(ways, label, k) ==
    IF k > Len(ways) THEN 0
    ELSE AreaFor(ways[k], label) + SumAreas(ways, label, k + 1)

\* lines 285-305: the dict totals before it is normalized.  It always has
\* the six labels as keys.
LandcoverTotals(data) ==
    LET ways == IF data = EmptyResult THEN <<>> ELSE data.ways
    IN  [k \in Labels |-> SumAreas(ways, k, 1)]

\* the totals given back as they are
Normalize_Raw(totals) == [num |-> totals, den |-> 1]

\* lines 307-311: the totals divided by their sum when it is positive, as
\* fractions of one denominator
Normalize(totals) ==
    LET total_area == SumOver(totals, DOMAIN totals)
        g == GcdOver(totals, DOMAIN totals)
    IN  IF total_area > 0
        THEN [num |-> [k \in DOMAIN totals |-> totals[k] \div g],
              den |-> total_area \div g]
        ELSE [num |-> totals, den |-> 1]

\* lines 261-312
landcover_mix(data) == Normalize(LandcoverTotals(data))

NoMix == [num |-> [k \in Labels |-> 0], den |-> 1]
NoIndex == [num |-> 0, den |-> 1]

\* a label that is not in the table scores nothing
Score_Zero(k) == IF k \in DOMAIN ROUGHNESS_SCORE THEN ROUGHNESS_SCORE[k] ELSE 0

\* line 318: ROUGHNESS_SCORE.get(k, 0.5), in hundredths
Score(k) == IF k \in DOMAIN ROUGHNESS_SCORE THEN ROUGHNESS_SCORE[k] ELSE 50

\* lines 315-318, in hundredths
roughness_index(m) ==
    IF DOMAIN m.num = {} THEN [num |-> 50, den |-> 1]
    ELSE [num |-> SumOver([k \in DOMAIN m.num |-> Score(k) * m.num[k]],
                          DOMAIN m.num),
          den |-> m.den]

-----------------------------------------------------------------------------
(* building_density_per_km2 *)

\* line 333: pi * (radius/1000)^2 in units of 1e-4 km2, the radius in units
\* of 100 m (800 m gives 2.0106 km2)
AreaKm2E4(radius_hm) == (31416 * radius_hm * radius_hm) \div 100

NoDensity == [num |-> 0, den |-> 1]

\* lines 332-334
building_density_per_km2(count, radius_hm) ==
    IF AreaKm2E4(radius_hm) > 0
    THEN [num |-> count * 10000, den |-> AreaKm2E4(radius_hm)]
    ELSE NoDensity

\* the response to "out ids": its number of way elements
BuildingPayloads == { [elements |-> "ids", ways |-> c] : c \in BuildingCounts }

\* line 332: the number of way elements of the response
BuildingWays(data) == IF data = EmptyResult THEN 0 ELSE data.ways

-----------------------------------------------------------------------------
(* decide_exposure *)

\* the inland limit without the floor of 600 ft
InlandLimit_NoFloor(height_ft) == (20 * height_ft * 3048) \div 10

\* lines 382-383: max(600 ft, 20 H) in mm (1 ft = 304.8 mm)
InlandLimit(height_ft) == (Max(600, 20 * height_ft) * 3048) \div 10

\* line 392 with the rounding of line 400, in tenths of a degree
AzimuthDeg(k, n) == RoundDiv(3600 * k, n)

\* a sector qualifies on its fetch alone when the distance is known
SectorQualifies_NoLimit(fetch, d, limit) ==
    fetch >= FetchThreshold /\ d # NoDistance

\* the two comparisons made strict
SectorQualifies_Strict(fetch, d, limit) ==
    fetch > FetchThreshold /\ d # NoDistance /\ d < limit

\* lines 401-402
SectorQualifies(fetch, d, limit) ==
    fetch >= FetchThreshold /\ d # NoDistance /\ d <= limit

\* qualifies_D assigned by every sector, so that the last one decides
UpdateQualifies_LastSector(q, fetch, d, limit) ==
    SectorQualifies(fetch, d, limit)

\* lines 401-403: qualifies_D after one more sector
UpdateQualifies(q, fetch, d, limit) ==
    IF SectorQualifies(fetch, d, limit) THEN TRUE ELSE q

\* the roughness comparison made strict
MeetsB_Strict(density, r) ==
    density.num >= 200 * density.den \/ r.num > 75 * r.den

\* line 419
MeetsB(density, r) ==
    density.num >= 200 * density.den \/ r.num >= 75 * r.den

\* the else branch of line 422 left out
Classify_NoElse(q, density, r) ==
    IF q THEN "D"
    ELSE IF MeetsB(density, r) THEN "B" ELSE "null"

\* lines 413-424
Classify(q, density, r) ==
    IF q THEN "D"
    ELSE IF MeetsB(density, r) THEN "B" ELSE "C"

\* the measurements noted before the rule that fired
Notes_RuleLast(cat, d, m) ==
    (IF d # NoDistance THEN << "distance_to_water_boundary_and_inland_limit" >> ELSE <<>>)
    \o << "building_density_and_roughness_index" >>
    \o (IF DOMAIN m.num # {} THEN << "land_cover_mix" >> ELSE <<>>)
    \o << CASE cat = "D" -> "over_water_fetch_within_inland_extent_exposure_D"
            [] cat = "B" -> "roughness_density_threshold_met_exposure_B"
            [] OTHER     -> "open_suburban_mix_below_thresholds_exposure_C" >>

\* lines 413-436: the notes, each named by what it says
Notes(cat, d, m) ==
    << CASE cat = "D" -> "over_water_fetch_within_inland_extent_exposure_D"
         [] cat = "B" -> "roughness_density_threshold_met_exposure_B"
         [] OTHER     -> "open_suburban_mix_below_thresholds_exposure_C" >>
    \o (IF d # NoDistance THEN << "distance_to_water_boundary_and_inland_limit" >> ELSE <<>>)
    \o << "building_density_and_roughness_index" >>
    \o (IF DOMAIN m.num # {} THEN << "land_cover_mix" >> ELSE <<>>)

\* lines 438-447
ResultDict(cat, d, limit, secs, density, r, m, ns) ==
    [exposure_category |-> cat,
     distance_to_water_boundary_m |-> IF d = NoDistance THEN NoDistance ELSE Round1Mm(d),
     inland_limit_m |-> Round1Mm(limit),
     sector_results |-> secs,
     building_density_per_km2 |-> RoundDiv(10 * density.num, density.den),
     roughness_index |-> RoundDiv(r.num, r.den),
     landcover_mix |-> m,
     notes |-> ns]

-----------------------------------------------------------------------------
(* The steps of one decide_exposure call *)

Init ==
    /\ pc = "idle"
    /\ building_height_ft = 0
    /\ sectors = 0
    /\ water_polys = "None"
    /\ inland_limit_m = 0
    /\ d_water_m = NoDistance
    /\ i = 0
    /\ fetch_m = 0
    /\ scan = NoScan
    /\ sector_results = <<>>
    /\ qualifies_D = FALSE
    /\ dens = NoDensity
    /\ mix = NoMix
    /\ r_index = NoIndex
    /\ exposure = "null"
    /\ notes = <<>>
    /\ result = <<>>
    /\ outcome = "none"
    /\ error = "none"
    /\ requests = <<>>
    /\ FragIdle
    /\ BatchIdle
    /\ FastenerIdle

\* an exception leaves decide_exposure
Raise(exception) ==
    /\ pc' = "done"
    /\ outcome' = "raised"
    /\ error' = exception

\* decide_exposure is called
Call ==
    /\ pc = "idle"
    /\ \E h \in Heights, n \in SectorCounts :
        /\ building_height_ft' = h
        /\ sectors' = n
    /\ pc' = "water"
    /\ UNCHANGED <<water_polys, inland_limit_m, d_water_m, i, fetch_m, scan,
                   sector_results, qualifies_D, dens, mix, r_index, exposure,
                   notes, result, outcome, requests>>
    /\ UNCHANGED <<error, parts>>

\* line 380
FetchWater ==
    /\ pc = "water"
    /\ \E net \in Outcomes : \E payload \in Responses(net, WaterPayloads) :
        LET r == overpass(net, payload) IN
        /\ requests' = Send(requests, "water", net, r)
        /\ IF r.raised \/ NodesRaise(r.data)
           THEN Raise(IF r.raised THEN "Exception" ELSE "KeyError")
                /\ UNCHANGED water_polys
           ELSE /\ water_polys' = fetch_water_polys(r.data)
                /\ pc' = "limits"
                /\ UNCHANGED <<outcome, error>>
    /\ UNCHANGED <<building_height_ft, sectors, inland_limit_m, d_water_m, i,
                   fetch_m, scan, sector_results, qualifies_D, dens, mix,
                   r_index, exposure, notes, result>>
    /\ UNCHANGED parts

\* lines 382-389
Limits ==
    /\ pc = "limits"
    /\ inland_limit_m' = InlandLimit(building_height_ft)
    /\ IF water_polys = "None"
       THEN d_water_m' = NoDistance
       ELSE \E d \in Dists : d_water_m' = d
    /\ sector_results' = <<>>
    /\ qualifies_D' = FALSE
    /\ i' = 0
    /\ pc' = IF water_polys # "None" /\ sectors > 0 THEN "sectors" ELSE "density"
    /\ UNCHANGED <<building_height_ft, sectors, water_polys, fetch_m, scan,
                   dens, mix, r_index, exposure, notes, result, outcome,
                   requests>>
    /\ UNCHANGED <<error, parts>>

\* lines 391-403: one iteration of the loop over the sectors
Sector ==
    /\ pc = "sectors"
    /\ i < sectors
    /\ \E inside \in Profiles :
        LET s == sector_over_water_fetch_m(max_check_m, water_polys, inside) IN
        /\ scan' = [inside |-> inside, fetch |-> s.fetch, tested |-> s.tested]
        /\ fetch_m' = s.fetch
        /\ sector_results' = Append(sector_results,
                [azimuth_deg |-> AzimuthDeg(i, sectors),
                 fetch_m |-> Round1Mm(s.fetch)])
        /\ qualifies_D' = UpdateQualifies(qualifies_D, s.fetch, d_water_m, inland_limit_m)
    /\ i' = i + 1
    /\ pc' = IF i + 1 < sectors THEN "sectors" ELSE "density"
    /\ UNCHANGED <<building_height_ft, sectors, water_polys, inland_limit_m,
                   d_water_m, dens, mix, r_index, exposure, notes, result,
                   outcome, requests>>
    /\ UNCHANGED <<error, parts>>

\* line 406
Density ==
    /\ pc = "density"
    /\ \E net \in Outcomes : \E payload \in Responses(net, BuildingPayloads) :
        LET r == overpass(net, payload) IN
        /\ requests' = Send(requests, "buildings", net, r)
        /\ IF r.raised
           THEN Raise("Exception") /\ UNCHANGED dens
           ELSE /\ dens' = building_density_per_km2(
                              BuildingWays(r.data), radius_m)
                /\ pc' = "landcover"
                /\ UNCHANGED <<outcome, error>>
    /\ scan' = NoScan      \* the samples of the loop are not kept after it
    /\ UNCHANGED <<building_height_ft, sectors, water_polys, inland_limit_m,
                   d_water_m, i, fetch_m, sector_results, qualifies_D, mix,
                   r_index, exposure, notes, result>>
    /\ UNCHANGED parts

\* line 407
Landcover ==
    /\ pc = "landcover"
    /\ \E net \in Outcomes : \E payload \in Responses(net, LcPayloads) :
        LET r == overpass(net, payload) IN
        /\ requests' = Send(requests, "landcover", net, r)
        /\ IF r.raised \/ NodesRaise(r.data)
           THEN Raise(IF r.raised THEN "Exception" ELSE "KeyError")
                /\ UNCHANGED mix
           ELSE /\ mix' = landcover_mix(r.data)
                /\ pc' = "decide"
                /\ UNCHANGED <<outcome, error>>
    /\ UNCHANGED <<building_height_ft, sectors, water_polys, inland_limit_m,
                   d_water_m, i, fetch_m, scan, sector_results, qualifies_D,
                   dens, r_index, exposure, notes, result>>
    /\ UNCHANGED parts

\* lines 408-447
Decide ==
    /\ pc = "decide"
    /\ LET r == roughness_index(mix)
           cat == Classify(qualifies_D, dens, r)
           ns == Notes(cat, d_water_m, mix)
       IN  /\ r_index' = r
           /\ exposure' = cat
           /\ notes' = ns
           /\ result' = << ResultDict(cat, d_water_m, inland_limit_m,
                                      sector_results, dens, r, mix, ns) >>
    /\ outcome' = "returned"
    /\ pc' = "done"
    /\ UNCHANGED <<building_height_ft, sectors, water_polys, inland_limit_m,
                   d_water_m, i, fetch_m, scan, sector_results, qualifies_D,
                   dens, mix, requests>>
    /\ UNCHANGED <<error, parts>>

Next == Call \/ FetchWater \/ Limits \/ Sector \/ Density \/ Landcover \/ Decide

Spec == Init /\ [][Next]_vars

-----------------------------------------------------------------------------
(* The decision rule of lines 382-383 and 401-403 on its own: the height,  *)
(* the fetch of a sector and the distance to the water boundary are drawn  *)
(* from sets that hold the thresholds and their neighbours.                *)

RuleHeights == {-10, 0, 30, 31, 40}
RuleFetches == {1600000, 1608900, 1609000, 1609100, 1800000}
RuleDists == {NoDistance, 0, 182880, 182980, 243840, 243940}

\* a dict with a label that ROUGHNESS_SCORE does not have
OtherMix == [num |-> [k \in {"wetland", "forest"} |-> 1], den |-> 2]

\* the empty dict
EmptyMix == [num |-> [k \in {} |-> 0], den |-> 1]

\* dicts that landcover_mix gives back (no ways; residential 2 : forest 1;
\* meadow only; industrial only), and the two above
RuleMixes ==
    { landcover_mix(Body(TRUE, w)) :
        w \in { <<>>,
                << LcWay("none", "residential", TRUE, 2), LcWay("wood", "none", TRUE, 1) >>,
                << LcWay("none", "meadow", TRUE, 1) >>,
                << LcWay("none", "industrial", TRUE, 1) >> } }
        \cup { OtherMix, EmptyMix }

RuleDensities == { building_density_per_km2(c, 8) : c \in BuildingCounts }

RuleInit ==
    /\ pc = "rule"
    /\ building_height_ft \in RuleHeights
    /\ fetch_m \in RuleFetches
    /\ d_water_m \in RuleDists
    /\ sectors = 1
    /\ water_polys = IF d_water_m = NoDistance THEN "None" ELSE "topology"
    /\ inland_limit_m = 0
    /\ i = 0
    /\ scan = NoScan
    /\ sector_results = <<>>
    /\ qualifies_D = FALSE
    /\ dens \in RuleDensities
    /\ mix \in RuleMixes
    /\ r_index = NoIndex
    /\ exposure = "null"
    /\ notes = <<>>
    /\ result = <<>>
    /\ outcome = "none"
    /\ error = "none"
    /\ requests = <<>>
    /\ FragIdle
    /\ BatchIdle
    /\ FastenerIdle

\* lines 382-383
RuleLimit ==
    /\ pc = "rule"
    /\ inland_limit_m' = InlandLimit(building_height_ft)
    /\ pc' = "rule_sector"
    /\ UNCHANGED <<building_height_ft, sectors, water_polys, d_water_m, i,
                   fetch_m, scan, sector_results, qualifies_D, dens, mix,
                   r_index, exposure, notes, result, outcome, requests>>
    /\ UNCHANGED <<error, parts>>

\* lines 400-403
RuleSector ==
    /\ pc = "rule_sector"
    /\ sector_results' = Append(sector_results,
            [azimuth_deg |-> AzimuthDeg(i, sectors), fetch_m |-> Round1Mm(fetch_m)])
    /\ qualifies_D' = UpdateQualifies(qualifies_D, fetch_m, d_water_m, inland_limit_m)
    /\ i' = i + 1
    /\ pc' = "rule_done"
    /\ UNCHANGED <<building_height_ft, sectors, water_polys, inland_limit_m,
                   d_water_m, fetch_m, scan, dens, mix, r_index, exposure,
                   notes, result, outcome, requests>>
    /\ UNCHANGED <<error, parts>>

\* line 410
RuleRoughness ==
    /\ pc = "rule_done"
    /\ r_index' = roughness_index(mix)
    /\ pc' = "rule_rough"
    /\ UNCHANGED <<building_height_ft, sectors, water_polys, inland_limit_m,
                   d_water_m, i, fetch_m, scan, sector_results, qualifies_D,
                   dens, mix, exposure, notes, result, outcome, requests>>
    /\ UNCHANGED <<error, parts>>

\* lines 414-424
RuleClassify ==
    /\ pc = "rule_rough"
    /\ exposure' = Classify(qualifies_D, dens, r_index)
    /\ pc' = "rule_classified"
    /\ UNCHANGED <<building_height_ft, sectors, water_polys, inland_limit_m,
                   d_water_m, i, fetch_m, scan, sector_results, qualifies_D,
                   dens, mix, r_index, notes, result, outcome, requests>>
    /\ UNCHANGED <<error, parts>>

RuleNext == RuleLimit \/ RuleSector \/ RuleRoughness \/ RuleClassify

RuleSpec == RuleInit /\ [][RuleNext]_vars

-----------------------------------------------------------------------------
(* The assembly of lines 151-199 and the mix of lines 282-312 on their     *)
(* own, each applied to a response drawn from bodies whose ways differ in  *)
(* their node references, their validity and their tags, and from bodies   *)
(* with one relation over two outer rings and an inner ring.               *)

\* node references of a way: a closed square; the same closed through node 5;
\* an open way of four points; a closed way of three points; a way closed
\* once its unresolved reference is dropped; a way left with three points;
\* a way with no reference that resolves
FragNodeSeqs ==
    { <<1, 2, 3, 4, 1>>, <<1, 2, 3, 4, 5>>, <<1, 2, 3, 4>>, <<1, 2, 1>>,
      <<1, 2, 9, 3, 4, 1>>, <<1, 2, 3, 9>>, <<9, 9, 9, 9>> }

FragWayKinds ==
    { WaterWay(n, TRUE) : n \in FragNodeSeqs }
        \cup { WaterWay(<<1, 3, 2, 4, 1>>, FALSE) }
        \cup { Way(Tags("none", "residential"), n, TRUE, 2) :
                    n \in {<<1, 2, 3, 4>>, <<1, 2, 9, 3, 4, 1>>, <<1, 2, 3, 9>>} }
        \cup { Way(Tags("none", "forest"), <<1, 3, 2, 4, 1>>, FALSE, 0) }
        \cup { Way(Tags("wood", "residential"), <<1, 2, 3, 4, 1>>, TRUE, 3) }
        \cup LcWayKinds

\* the three ways of a body with a relation: the first square, the second
\* square and the small square inside the first
RelWays ==
    << WaterWay(<<1, 2, 3, 4, 1>>, TRUE),
       WaterWay(<<11, 12, 13, 14, 11>>, TRUE),
       WaterWay(<<21, 22, 23, 24, 21>>, TRUE) >>

Member(type, ref, role) == [type |-> type, ref |-> ref, role |-> role]

RelMembers ==
    { << Member("way", 1, "outer"), Member("way", 2, "outer"), Member("way", 3, "inner") >>,
      << Member("way", 2, "outer"), Member("way", 1, "outer"), Member("way", 3, "inner") >>,
      << Member("way", 3, "inner"), Member("way", 1, "outer"), Member("way", 2, "outer") >>,
      << Member("way", 1, "outer"), Member("way", 3, "inner") >>,
      << Member("way", 2, "outer"), Member("way", 3, "inner") >>,
      << Member("way", 1, "outer"), Member("way", 2, "outer") >>,
      << Member("way", 1, "outer"), Member("way", 7, "inner") >>,
      << Member("node", 1, "outer"), Member("way", 2, "outer"), Member("way", 3, "") >> }

RelTypes == {"multipolygon", "boundary", "route"}

FragPayloads ==
    { Body(TRUE, w) : w \in SeqsUpTo(FragWayKinds, MaxWays) }
        \cup { BodyRels(TRUE, RelWays, << [type |-> t, members |-> m] >>) :
                    t \in RelTypes, m \in RelMembers }
        \cup { EmptyResult }

\* the radius of building_density_per_km2 in units of 100 m: the default
\* of 800 m, zero and a negative one
Radii == {-8, 0, 8}

\* the ways of the response
InputWays == IF input = EmptyResult THEN <<>> ELSE input.ways

\* points inside the small square, inside the first square beside the
\* small one, between the two squares, and inside the second square; all of
\* them are looked at for the responses of one way at most and for those
\* with a relation
Points == { <<3, 3>>, <<5, 3>>, <<5, 15>>, <<5, 25>> }

FragInit ==
    /\ pc = "frag"
    /\ \/ /\ input \in FragPayloads
          /\ radius_m = 8
          /\ pt \in IF input = EmptyResult \/ (Len(input.ways) >= 2 /\ input.rels = <<>>)
                    THEN { <<5, 3>> } ELSE Points
       \/ /\ input \in BuildingPayloads \cup {EmptyResult}
          /\ radius_m \in Radii
          /\ pt = <<0, 0>>
    /\ polys = <<>>
    /\ contained = FALSE
    /\ BatchIdle
    /\ FastenerIdle
    /\ building_height_ft = 0
    /\ sectors = 0
    /\ water_polys = "None"
    /\ inland_limit_m = 0
    /\ d_water_m = NoDistance
    /\ i = 0
    /\ fetch_m = 0
    /\ scan = NoScan
    /\ sector_results = <<>>
    /\ qualifies_D = FALSE
    /\ dens = NoDensity
    /\ mix = NoMix
    /\ r_index = NoIndex
    /\ exposure = "null"
    /\ notes = <<>>
    /\ result = <<>>
    /\ outcome = "none"
    /\ error = "none"
    /\ requests = <<>>

\* lines 151-205 on the response
FragAssemble ==
    /\ pc = "frag"
    /\ input.elements # "ids"
    /\ polys' = AssemblePolys(input)
    /\ water_polys' = fetch_water_polys(input)
    /\ pc' = "frag_water"
    /\ UNCHANGED <<building_height_ft, sectors, inland_limit_m, d_water_m, i,
                   fetch_m, scan, sector_results, qualifies_D, dens, mix,
                   r_index, exposure, notes, result, outcome, requests>>
    /\ UNCHANGED <<error, frag_in, contained, batch, fpa_in, fpa_result,
                   fpa_zone_results>>

\* lines 282-312 on the response
FragMix ==
    /\ pc = "frag"
    /\ input.elements # "ids"
    /\ mix' = landcover_mix(input)
    /\ pc' = "frag_mix"
    /\ UNCHANGED <<building_height_ft, sectors, water_polys, inland_limit_m,
                   d_water_m, i, fetch_m, scan, sector_results, qualifies_D,
                   dens, r_index, exposure, notes, result, outcome, requests>>
    /\ UNCHANGED <<error, parts>>

\* lines 331-334 on the response
FragDensity ==
    /\ pc = "frag"
    /\ input.elements \in {"ids", "empty"}
    /\ dens' = building_density_per_km2(BuildingWays(input), radius_m)
    /\ pc' = "frag_density"
    /\ UNCHANGED <<building_height_ft, sectors, water_polys, inland_limit_m,
                   d_water_m, i, fetch_m, scan, sector_results, qualifies_D,
                   mix, r_index, exposure, notes, result, outcome, requests>>
    /\ UNCHANGED <<error, parts>>

\* lines 208-213, and the test of line 230, on the polygons assembled
FragLocate ==
    /\ pc = "frag_water"
    /\ d_water_m' = distance_to_water_boundary_m(pt, water_polys, InputWays, polys)
    /\ contained' = (water_polys # "None" /\ Contains(InputWays, polys, pt))
    /\ pc' = "frag_point"
    /\ UNCHANGED <<building_height_ft, sectors, water_polys, inland_limit_m,
                   i, fetch_m, scan, sector_results, qualifies_D, dens, mix,
                   r_index, exposure, notes, result, outcome, requests>>
    /\ UNCHANGED <<error, frag_in, polys, batch, fpa_in, fpa_result,
                   fpa_zone_results>>

FragNext == FragAssemble \/ FragMix \/ FragDensity \/ FragLocate

FragmentSpec == FragInit /\ [][FragNext]_vars

-----------------------------------------------------------------------------
(* analyze_one_core *)

\* decide_exposure is not running
DecideIdle ==
    /\ building_height_ft = 0
    /\ sectors = 0
    /\ water_polys = "None"
    /\ inland_limit_m = 0
    /\ d_water_m = NoDistance
    /\ i = 0
    /\ fetch_m = 0
    /\ scan = NoScan
    /\ sector_results = <<>>
    /\ qualifies_D = FALSE
    /\ dens = NoDensity
    /\ mix = NoMix
    /\ r_index = NoIndex
    /\ exposure = "null"
    /\ notes = <<>>
    /\ result = <<>>
    /\ requests = <<>>

\* Vult_mph of line 508: None
NoSpeed == -1

\* None of line 361
NoWind == [Vult_mph |-> NoSpeed, source |-> "None"]

\* what the wind service answers: a status, and the value the body holds
\* ("" when the body has none of the three keys, "n/a" when the value is
\* no number), or an exception of the request or of the decoding
WindAnswers ==
    { [kind |-> "200", v |-> "170"], [kind |-> "200", v |-> "0"], [kind |-> "200", v |-> ""],
      [kind |-> "200", v |-> "n/a"], [kind |-> "503", v |-> "150"],
      [kind |-> "raises", v |-> ""] }

\* float(v) of line 358 on the values drawn; -2 stands for its ValueError
Float(v) ==
    CASE v = "170" -> 170
      [] v = "150" -> 150
      [] v = "0"   -> 0
      [] OTHER     -> -2

\* lines 345-361: the value of the service, or None whatever went wrong.
\* The body is JSON, so a value is a number or a string: 0 is falsy at line
\* 357 and a string that is no number raises at line 358
try_asce7_windspeed(w) ==
    IF w.kind = "raises" THEN NoWind
    ELSE IF w.kind = "200" /\ w.v # "" /\ Float(w.v) # 0
         THEN IF Float(w.v) = -2 THEN NoWind
              ELSE [Vult_mph |-> Float(w.v), source |-> "url"]
         ELSE NoWind

\* lines 364-368
WINDSPEED_FALLBACK ==
    (<<"FL", "miami-dade">> :> 170) @@ (<<"FL", "monroe">> :> 180)
        @@ (<<"FL", "broward">> :> 170)

\* the address details of a geocoder answer; "" is an absent key
AddrDetails(state, state_code, county, county_name) ==
    [state |-> state, state_code |-> state_code, county |-> county,
     county_name |-> county_name]

\* {}
NoDetails == AddrDetails("", "", "", "")

DetailsDrawn ==
    { NoDetails,
      AddrDetails("Florida", "", "Miami-Dade County", ""),
      AddrDetails("", "FL", "", "Monroe"),
      AddrDetails("Florida", "US-FL", "Broward County", ""),
      AddrDetails("Texas", "", "Harris County", ""),
      AddrDetails("Florida", "", "", ""),
      AddrDetails("Puerto Rico", "", "Monroe County", ""),
      AddrDetails("", "US-FL", "Monroe County", "") }

\* str.lower on the names drawn
Lower(str) ==
    CASE str = "Florida"           -> "florida"
      [] str = "Texas"             -> "texas"
      [] str = "Puerto Rico"       -> "puerto rico"
      [] str = "US-FL"             -> "us-fl"
      [] str = "Miami-Dade County" -> "miami-dade county"
      [] str = "Broward County"    -> "broward county"
      [] str = "Harris County"     -> "harris county"
      [] str = "Monroe County"     -> "monroe county"
      [] str = "Monroe"            -> "monroe"

\* .replace(" county", "") of line 477 on the lowered names
StripCounty(str) ==
    CASE str = "miami-dade county" -> "miami-dade"
      [] str = "broward county"    -> "broward"
      [] str = "harris county"     -> "harris"
      [] str = "monroe county"     -> "monroe"
      [] OTHER                     -> str

\* len of line 461 on the codes drawn
StrLen(str) ==
    CASE str = "FL"    -> 2
      [] str = "US-FL" -> 5

\* lines 465-473
STATES ==
    ("florida" :> "FL") @@ ("illinois" :> "IL") @@ ("alabama" :> "AL")
        @@ ("georgia" :> "GA") @@ ("texas" :> "TX")
        @@ ("california" :> "CA") @@ ("new york" :> "NY")

\* a or b of Python on strings
Or(a, b) == IF a # "" THEN a ELSE b

\* lines 453-478; "" is None
parse_state_county(addr_details) ==
    IF addr_details = NoDetails THEN <<"", "">>
    ELSE LET state == Or(addr_details.state, addr_details.state_code)
             state_code == addr_details.state_code
             st == IF state_code # "" /\ StrLen(state_code) = 2
                   THEN state_code
                   ELSE IF state # ""
                        THEN IF Lower(state) \in DOMAIN STATES
                             THEN STATES[Lower(state)] ELSE ""
                        ELSE state
             county_name == Or(addr_details.county, addr_details.county_name)
             county == IF county_name # "" THEN StripCounty(Lower(county_name))
                       ELSE ""
         IN  <<st, county>>

\* what the services answer during one call of analyze_one_core: the
\* geocoder (line 495), the reverse geocoder (line 497), the wind service
\* and decide_exposure (line 512), which returns the category or raises
Envs ==
    [geo : {"ok", "raises"}, addr : DetailsDrawn,
     rev : {"ok", "raises"}, rev_addr : {NoDetails, AddrDetails("", "FL", "", "Monroe"),
                                          AddrDetails("Texas", "", "Harris County", "")},
     wind : WindAnswers, exposure : {"B", "D", "raises"}]

\* line 499
UseAddr(e) == IF e.rev_addr # NoDetails THEN e.rev_addr ELSE e.addr

\* lines 501-510 with the table consulted before the service
WindSpeed_TableFirst(e) ==
    LET key == parse_state_county(UseAddr(e))
        wind == try_asce7_windspeed(e.wind)
    IN  IF key[1] # "" /\ key[2] # "" /\ key \in DOMAIN WINDSPEED_FALLBACK
        THEN [Vult_mph |-> WINDSPEED_FALLBACK[key], source |-> "fallback_table"]
        ELSE IF wind # NoWind THEN wind
        ELSE [Vult_mph |-> NoSpeed, source |-> "verify"]

\* lines 501-510
WindSpeed(e) ==
    LET wind == try_asce7_windspeed(e.wind)
        key == parse_state_county(UseAddr(e))
    IN  IF wind # NoWind THEN wind
        ELSE IF key[1] # "" /\ key[2] # "" /\ key \in DOMAIN WINDSPEED_FALLBACK
             THEN [Vult_mph |-> WINDSPEED_FALLBACK[key], source |-> "fallback_table"]
             ELSE [Vult_mph |-> NoSpeed, source |-> "verify"]

\* lines 484-527: the exception that leaves the function ("none" when it
\* returns) and the dict, which holds nothing when it raised
analyze_one_core(e) ==
    LET raised == IF e.geo = "raises" THEN "geocode"
                  ELSE IF e.rev = "raises" THEN "reverse_geocode"
                  ELSE IF e.exposure = "raises" THEN "decide_exposure"
                  ELSE "none"
    IN  [raised |-> raised,
         out |-> IF raised = "none"
                 THEN [exposure_estimate |-> e.exposure, wind_speed |-> WindSpeed(e)]
                 ELSE [exposure_estimate |-> "null", wind_speed |-> NoWind]]

AnalyzeInit ==
    /\ pc = "analyze"
    /\ env \in Envs
    /\ out = <<>>
    /\ addrs = <<>>
    /\ rows = <<>>
    /\ pd = FALSE
    /\ csv_out = FALSE
    /\ written = [kind |-> "none", rows |-> <<>>]
    /\ DecideIdle
    /\ FragIdle
    /\ FastenerIdle
    /\ outcome = "none"
    /\ error = "none"

\* analyze_one_core is called once
AnalyzeOne ==
    /\ pc = "analyze"
    /\ LET r == analyze_one_core(env)
       IN  /\ out' = IF r.raised = "none" THEN <<r.out>> ELSE <<>>
           /\ outcome' = IF r.raised = "none" THEN "returned" ELSE "raised"
           /\ error' = r.raised
    /\ pc' = "analyze_done"
    /\ UNCHANGED <<decide_state, frag_in, polys, contained>>
    /\ UNCHANGED <<env, addrs, rows, pd, csv_out, written, fpa_in, fpa_result,
                   fpa_zone_results>>

AnalyzeSpec == AnalyzeInit /\ [][AnalyzeOne]_vars

-----------------------------------------------------------------------------
(* main, CSV batch mode *)

\* what the services answer for the addresses of the input file: an
\* address the wind service knows, an address outside the static table
\* while the wind service is down, and an address the geocoder does not find
BatchEnvs ==
    { [geo |-> "ok", addr |-> AddrDetails("Florida", "", "Miami-Dade County", ""),
       rev |-> "ok", rev_addr |-> NoDetails, wind |-> [kind |-> "200", v |-> "170"],
       exposure |-> "B"],
      [geo |-> "ok", addr |-> AddrDetails("Texas", "", "Harris County", ""),
       rev |-> "ok", rev_addr |-> NoDetails, wind |-> [kind |-> "raises", v |-> ""],
       exposure |-> "D"],
      [geo |-> "raises", addr |-> NoDetails, rev |-> "ok", rev_addr |-> NoDetails,
       wind |-> [kind |-> "200", v |-> "170"], exposure |-> "B"] }

\* lines 704-715 and 717: the row of the k-th address
Row(k, e) ==
    LET res == analyze_one_core(e)
    IN  IF res.raised = "none"
        THEN [address |-> k, exposure |-> res.out.exposure_estimate,
              Vult_mph |-> res.out.wind_speed.Vult_mph]
        ELSE [address |-> k, error |-> res.raised]

\* csv.DictWriter of lines 724-726 with extrasaction left at "raise": the
\* first row that holds a key outside fieldnames, 0 when there is none
FirstExtra(rs, fieldnames) ==
    LET bad == { k \in 1 .. Len(rs) : ~ (DOMAIN rs[k] \subseteq fieldnames) }
    IN  IF bad = {} THEN 0 ELSE CHOOSE k \in bad : \A j \in bad : k <= j

\* lines 720-731: the rows that reach the output and the exception that
\* leaves main. pandas makes a frame of all the rows; the csv module takes
\* its fieldnames from the first row (IndexError when there is none) and
\* writerows raises ValueError at the first row with another key, after the
\* rows before it were written
WriteRows(rs, pandas, to_csv) ==
    IF ~ to_csv THEN [error |-> "none", written |-> [kind |-> "json", rows |-> rs]]
    ELSE IF pandas THEN [error |-> "none", written |-> [kind |-> "csv", rows |-> rs]]
    ELSE IF rs = <<>>
         THEN [error |-> "IndexError", written |-> [kind |-> "csv", rows |-> <<>>]]
         ELSE LET k == FirstExtra(rs, DOMAIN rs[1])
              IN  IF k = 0
                  THEN [error |-> "none", written |-> [kind |-> "csv", rows |-> rs]]
                  ELSE [error |-> "ValueError",
                        written |-> [kind |-> "csv", rows |-> SubSeq(rs, 1, k - 1)]]

\* lines 686-696: main is started with --csv-in; the addresses are loaded
\* by pandas or by csv.DictReader
BatchInit ==
    /\ pc = "batch"
    /\ addrs \in SeqsUpTo(BatchEnvs, MaxAddrs)
    /\ pd \in BOOLEAN
    /\ csv_out \in BOOLEAN
    /\ rows = <<>>
    /\ written = [kind |-> "none", rows |-> <<>>]
    /\ env = [geo |-> "none"]
    /\ out = <<>>
    /\ DecideIdle
    /\ FragIdle
    /\ FastenerIdle
    /\ outcome = "none"
    /\ error = "none"

\* lines 699-717: one turn of the loop
BatchRow ==
    /\ pc = "batch"
    /\ Len(rows) < Len(addrs)
    /\ rows' = Append(rows, Row(Len(rows) + 1, addrs[Len(rows) + 1]))
    /\ UNCHANGED <<pc, outcome, error, decide_state, frag_in, polys, contained>>
    /\ UNCHANGED <<env, out, addrs, pd, csv_out, written, fpa_in, fpa_result,
                   fpa_zone_results>>

\* lines 720-733 after the loop
BatchWrite ==
    /\ pc = "batch"
    /\ Len(rows) = Len(addrs)
    /\ LET w == WriteRows(rows, pd, csv_out)
       IN  /\ written' = w.written
           /\ error' = w.error
           /\ outcome' = IF w.error = "none" THEN "returned" ELSE "raised"
    /\ pc' = "batch_done"
    /\ UNCHANGED <<decide_state, frag_in, polys, contained>>
    /\ UNCHANGED <<env, out, addrs, rows, pd, csv_out, fpa_in, fpa_result,
                   fpa_zone_results>>

BatchNext == BatchRow \/ BatchWrite

BatchSpec == BatchInit /\ [][BatchNext]_vars

-----------------------------------------------------------------------------
(* fpa_fastener_gui.py: select_zone_patterns and run_once; site_api.py *)

\* lines 43, 44 and 46
HEIGHTS == {20, 25, 30, 40, 50, 60}
WIND_COLS == {120, 130, 140, 150, 160, 170, 180, 190, 200}
ZONES == <<"Zone 1", "Zone 2", "Zone 3">>

\* lines 49-60: the panels of PANEL_TO_PDF
SUPPORTED_PANELS ==
    {"5V-Crimp", "GulfLok", "GulfPBR", "GulfRib", "GulfSeam", "GulfSnap",
     "GulfWave", "MegaLoc", "VersaLoc"}

\* lines 88-98; pressures are whole psf
Chart(exp, zone, table) == [exposure |-> exp, zone |-> zone, table |-> table]
Allowable(system, allowable_psf) ==
    [system |-> system, allowable_psf |-> allowable_psf]

\* a table of line 92, (height, wind column) |-> pressure, negative psf
\* as the charts print it; the charts drawn cover two heights and two columns
Table(p) ==
    (<<30, 150>> :> p) @@ (<<30, 160>> :> (p - 5)) @@ (<<40, 150>> :> (p - 3))
        @@ (<<40, 160>> :> (p - 9))

\* the charts a parsed approval can hold: one per zone; none for Zone 3; an
\* empty table for Zone 2; a Zone 1 table without the 160 mph column and
\* with a blank cell of 0 psf; charts of two exposures for one zone
ChartLists ==
    { << Chart("C", "Zone 1", Table(-28)), Chart("C", "Zone 2", Table(-45)),
         Chart("C", "Zone 3", Table(-61)) >>,
      << Chart("C", "Zone 1", Table(-28)), Chart("C", "Zone 2", Table(-45)) >>,
      << Chart("C", "Zone 1", Table(-28)), Chart("C", "Zone 2", << >>),
         Chart("C", "Zone 3", Table(-61)) >>,
      << Chart("C", "Zone 1", (<<30, 150>> :> 0) @@ (<<40, 150>> :> -30)),
         Chart("C", "Zone 2", Table(-45)), Chart("C", "Zone 3", Table(-61)) >>,
      << Chart("B", "Zone 1", Table(-20)), Chart("C", "Zone 1", Table(-28)),
         Chart("C", "Zone 2", Table(-45)), Chart("B", "Zone 2", Table(-33)),
         Chart("C", "Zone 3", Table(-61)), Chart("B", "Zone 3", Table(-50)) >> }

\* the allowables _parse_allowables returns (lines 204-208): without
\* duplicates, in ascending order of allowable_psf; an approval can print
\* them as negative pressures (the pattern of line 193 keeps the sign)
AllowableLists ==
    { << >>,
      << Allowable("GS-1", 30) >>,
      << Allowable("GS-1", 30), Allowable("GS-2", 45), Allowable("GS-3", 60) >>,
      << Allowable("GS-1", 48), Allowable("GS-2", 70) >>,
      << Allowable("GS-1", 45), Allowable("GS-2", 45), Allowable("GS-3", 90) >>,
      << Allowable("GS-3", -66), Allowable("GS-2", -45), Allowable("GS-1", -30) >> }

\* sorted(..., key=lambda a: a.allowable_psf) of line 316: a stable sort
RECURSIVE SortedByPsf(_)
SortedByPsf(seq) ==
    IF seq = << >> THEN << >>
    ELSE LET a == seq[Len(seq)]
             front == SortedByPsf(SubSeq(seq, 1, Len(seq) - 1))
             k == Cardinality({ j \in 1 .. Len(front) :
                                 front[j].allowable_psf <= a.allowable_psf })
         IN  SubSeq(front, 1, k) \o << a >> \o SubSeq(front, k + 1, Len(front))

\* None of line 328
NoValue == 999

\* lines 320-325: the table of the first chart of this exposure and zone
\* that has one, << >> (falsy like None) when there is none
Grid(charts, exp, z) ==
    LET hits == { k \in 1 .. Len(charts) :
                    /\ charts[k].exposure = exp
                    /\ charts[k].zone = z
                    /\ DOMAIN charts[k].table # {} }
    IN  IF hits = {} THEN << >>
        ELSE charts[CHOOSE k \in hits : \A j \in hits : k <= j].table

\* line 328: grid.get(height, {}).get(wind_col)
ChartValue(grid, height, wind_col) ==
    IF <<height, wind_col>> \in DOMAIN grid THEN grid[<<height, wind_col>>]
    ELSE NoValue

\* abs of line 332 left out
Abs_Signed(x) == x

\* abs of line 332
Abs(x) == IF x < 0 THEN 0 - x ELSE x

\* lines 319-353: the entry of one zone; chosen (lines 333-337) is the
\* first allowable in ascending order that reaches the need, 0 for None
ZoneEntry(fpa, exp, height, wind_col, z) ==
    LET allow == SortedByPsf(fpa.allowables)
        grid == Grid(fpa.charts, exp, z)
        req == ChartValue(grid, height, wind_col)
        need == Abs(req)
        reach == { k \in 1 .. Len(allow) : allow[k].allowable_psf >= need }
        chosen == IF reach = {} THEN 0
                  ELSE CHOOSE k \in reach : \A j \in reach : k <= j
    IN  IF DOMAIN grid = {}
        THEN [status |-> "needs_mapping", reason |-> "Chart not parsed"]
        ELSE IF req = NoValue
        THEN [status |-> "needs_mapping", reason |-> "No value"]
        ELSE IF chosen # 0
        THEN [status |-> "ok", required_psf |-> need, wind_col_mph |-> wind_col,
              pattern |-> allow[chosen].system,
              allowable_psf |-> allow[chosen].allowable_psf]
        ELSE [status |-> "engineering_required", required_psf |-> need,
              wind_col_mph |-> wind_col,
              max_allowable_psf |-> IF allow = << >> THEN NoValue
                                    ELSE allow[Len(allow)].allowable_psf]

\* lines 310-354: a dict with the key "error", returned and not raised, for
\* a height or a wind column outside the lists; else one entry per zone
select_zone_patterns(fpa, exp, height, wind_col) ==
    IF height \notin HEIGHTS THEN [error |-> "Height must be one of"]
    ELSE IF wind_col \notin WIND_COLS THEN [error |-> "Wind column must be one of"]
    ELSE [z \in { ZONES[k] : k \in 1 .. Len(ZONES) } |->
            ZoneEntry(fpa, exp, height, wind_col, z)]

\* lines 360-402, with << >> for the zone_results of a dict that has none
\* ({} at site_api.py line 128); a is the call: the arguments, whether the PDF of the
\* panel exists, and whether parse_fpa raises or what it returns
run_once(a) ==
    IF a.height > 60
    THEN [status |-> "engineering_required", reason |-> "Height > 60 ft per policy",
          zone_results |-> << >>]
    ELSE IF a.panel \notin SUPPORTED_PANELS
    THEN [status |-> "error", reason |-> "Unknown panel", zone_results |-> << >>]
    ELSE IF ~ a.pdf_exists
    THEN [status |-> "error", reason |-> "PDF not found", zone_results |-> << >>]
    ELSE IF a.parse_raises
    THEN [status |-> "error", reason |-> "FPA parse/selection failed",
          zone_results |-> << >>]
    ELSE [status |-> "ok", reason |-> "",
          zone_results |-> select_zone_patterns(a.fpa, a.exposure, a.height,
                                                a.wind_col)]

\* the calls drawn: heights and wind columns in and outside the lists
Calls ==
    [panel : {"GulfSeam", "Other"}, pdf_exists : BOOLEAN, parse_raises : BOOLEAN,
     fpa : [charts : ChartLists, allowables : AllowableLists],
     exposure : {"B", "C"}, height : {30, 35, 40, 70},
     wind_col : {150, 155, 160}]

FastenerInit ==
    /\ pc = "fpa"
    /\ fpa_in \in Calls
    /\ fpa_result = [status |-> "none"]
    /\ fpa_zone_results = << >>
    /\ BatchIdle
    /\ DecideIdle
    /\ FragIdle
    /\ outcome = "none"
    /\ error = "none"

\* site_api.py lines 117-124: run_once is called
RunOnce ==
    /\ pc = "fpa"
    /\ fpa_result' = run_once(fpa_in)
    /\ pc' = "fpa_ran"
    /\ UNCHANGED <<fpa_in, fpa_zone_results>>
    /\ UNCHANGED <<outcome, error, decide_state, frag_in, polys, contained, batch>>

\* site_api.py lines 127-130
ZoneResults ==
    /\ pc = "fpa_ran"
    /\ fpa_zone_results' = IF fpa_result.status = "ok" THEN fpa_result.zone_results
                           ELSE [error |-> fpa_result]
    /\ pc' = "fpa_done"
    /\ UNCHANGED <<fpa_in, fpa_result>>
    /\ UNCHANGED <<outcome, error, decide_state, frag_in, polys, contained, batch>>

FastenerNext == RunOnce \/ ZoneResults

FastenerSpec == FastenerInit /\ [][FastenerNext]_vars

-----------------------------------------------------------------------------
(* Properties *)

Returned == pc = "done" /\ outcome = "returned"

\* some sector of the result meets the two conditions of Exposure D
SomeSectorQualifies ==
    \E k \in DOMAIN sector_results :
        /\ sector_results[k].fetch_m >= 1609000
        /\ d_water_m # NoDistance
        /\ d_water_m <= inland_limit_m

QualifyingSectors ==
    { k \in DOMAIN sector_results : sector_results[k].fetch_m >= 1609000 }

\* the water request failed, or its response held no element
WaterMissing ==
    /\ Len(requests) >= 1
    /\ requests[1].query = "water"
    /\ requests[1].empty

\* C1: a returned category is D if and only if some sector has a fetch of at
\* least 1609 m while the distance to the water boundary is defined and at
\* most the inland limit, whatever the density and the roughness index are.
C1_D_iff_some_sector_qualifies ==
    Returned => (result[1].exposure_category = "D" <=> SomeSectorQualifies)

\* C1 witness: D from one qualifying sector among three, with a density
\* that would make the site B.
C1_witness ==
    /\ Returned
    /\ result[1].exposure_category = "D"
    /\ Len(sector_results) = 3
    /\ Cardinality(QualifyingSectors) = 1
    /\ sector_results[3].fetch_m = 0
    /\ dens.num >= 200 * dens.den

\* C2: when D does not qualify the category is B if the density is at least
\* 200 buildings/km2 or the roughness index at least 0.75, and C otherwise.
C2_B_or_C_by_thresholds ==
    (Returned /\ ~SomeSectorQualifies) =>
        result[1].exposure_category =
            IF dens.num >= 200 * dens.den \/ r_index.num >= 75 * r_index.den
            THEN "B" ELSE "C"

\* C2 witness: B from a roughness index of exactly 0.75 with a density
\* below 200.
C2_witness ==
    /\ Returned
    /\ ~SomeSectorQualifies
    /\ dens.num < 200 * dens.den
    /\ r_index.num = 75 * r_index.den
    /\ result[1].exposure_category = "B"

\* C3: every call that returns gives a category among B, C, D and a
\* notes sequence that is not empty.
C3_category_and_notes ==
    Returned =>
        /\ Len(result) = 1
        /\ result[1].exposure_category \in {"B", "C", "D"}
        /\ Len(result[1].notes) >= 1

\* C3 witness: a call that returns with no water topology, no building and
\* no classified land cover.
C3_witness ==
    /\ Returned
    /\ water_polys = "None"
    /\ dens.num = 0
    /\ \A k \in Labels : mix.num[k] = 0
    /\ result[1].exposure_category = "C"

\* C4: both thresholds of Exposure D are inclusive: a fetch of 1609.0 m
\* qualifies within the inland limit and 1608.9 m does not; with a fetch of
\* at least 1609 m a distance equal to the inland limit qualifies and the
\* inland limit plus 0.1 m does not.
C4_thresholds_inclusive ==
    pc = "rule_done" =>
        /\ (fetch_m = 1609000 /\ d_water_m # NoDistance /\ d_water_m <= inland_limit_m)
                => qualifies_D
        /\ fetch_m = 1608900 => ~qualifies_D
        /\ (fetch_m >= 1609000 /\ d_water_m = inland_limit_m) => qualifies_D
        /\ d_water_m = inland_limit_m + 100 => ~qualifies_D

\* C4 witness: a fetch of exactly 1609.0 m at exactly the inland limit.
C4_witness ==
    /\ pc = "rule_done"
    /\ fetch_m = 1609000
    /\ d_water_m = inland_limit_m
    /\ qualifies_D

\* C5: overpass never raises: every call gives a result back, and on a
\* timeout, a connection error, a non-success status or an invalid JSON
\* body that result is the empty one.
C5_overpass_never_raises ==
    \A k \in DOMAIN requests :
        /\ ~requests[k].raised
        /\ requests[k].net # "ok" => requests[k].empty

\* C5 witness: the three requests of one call failed, one of them on an
\* invalid JSON body, and the call returned.
C5_witness ==
    /\ Returned
    /\ Len(requests) = 3
    /\ \A k \in DOMAIN requests : requests[k].net # "ok"
    /\ requests[1].net = "timeout"
    /\ requests[2].net = "invalid_json"
    /\ requests[3].net = "http_error"

\* C6: when the water request fails or returns nothing the water topology
\* is absent, and for every density and land-cover mix the call returns
\* with a category B or C.
C6_water_failure_gives_B_or_C ==
    WaterMissing =>
        /\ water_polys = "None"
        /\ (pc = "done" /\ \A k \in DOMAIN requests : requests[k].readable)
                => Returned /\ result[1].exposure_category \in {"B", "C"}

\* C6 witness: the water request timed out and the site is B.
C6_witness ==
    /\ Returned
    /\ requests[1].net = "timeout"
    /\ sectors = 3
    /\ result[1].exposure_category = "B"

\* a note that says that data was missing
SaysDataMissing(note) == note \in {"water_data_missing", "map_data_missing"}

\* some request failed or the water topology is absent
DataMissing ==
    \/ water_polys = "None"
    \/ \E k \in DOMAIN requests : requests[k].net # "ok"

\* C7: when data was missing (a request failed or the water topology is
\* absent) the notes of the returned result say so.
C7_notes_say_data_missing ==
    (Returned /\ DataMissing) =>
        \E k \in DOMAIN result[1].notes : SaysDataMissing(result[1].notes[k])

\* the largest k such that the samples 1..k are all inside
ContiguousSteps(inside, num_steps) ==
    CHOOSE k \in 0 .. num_steps :
        /\ \A j \in 1 .. k : j \in inside
        /\ k < num_steps => (k + 1) \notin inside

Scanned == pc \in {"sectors", "density"} /\ i > 0

\* C8: the fetch of a sector is the step times the number of leading
\* samples inside the topology, 0 when the first sample is on land; water
\* beyond the first gap adds nothing and no sample beyond the first one
\* outside is tested.
C8_fetch_is_contiguous_run ==
    Scanned =>
        LET n == NumSteps(max_check_m)
            k == ContiguousSteps(scan.inside, n)
        IN  /\ scan.fetch = 200000 * k
            /\ fetch_m = scan.fetch
            /\ 1 \notin scan.inside => scan.fetch = 0
            /\ \A j \in scan.tested : j <= k + 1
            /\ scan.tested = 1 .. (IF k < n THEN k + 1 ELSE n)

\* C8 witness: water for 1600 m, a gap, and water again beyond it.
C8_witness ==
    /\ Scanned
    /\ scan.inside = Profile(8, TRUE)
    /\ 10 \in scan.inside
    /\ scan.fetch = 1600000
    /\ scan.tested = 1 .. 9

\* C9: for N >= 1 sectors the result holds N entries with azimuths
\* i*360/N, i = 0..N-1, in ascending order below 360, also when the water
\* topology is absent, where every fetch is 0.
C9_one_entry_per_sector ==
    (Returned /\ sectors >= 1) =>
        LET secs == result[1].sector_results
        IN  /\ Len(secs) = sectors
            /\ \A k \in DOMAIN secs :
                /\ secs[k].azimuth_deg * sectors = 3600 * (k - 1)
                /\ secs[k].azimuth_deg < 3600
                /\ water_polys = "None" => secs[k].fetch_m = 0

\* C10: when no land-cover area is classified the roughness index computed
\* and reported is 0.5.
C10_roughness_defaults_to_half ==
    (Returned /\ \A k \in Labels : mix.num[k] = 0) =>
        /\ 2 * r_index.num = 100 * r_index.den
        /\ result[1].roughness_index = 50

\* C11: the inland limit is max(600, 20 H) * 0.3048 m for every height; it
\* is never below 182.88 m, also for a height of zero or less, and it does
\* not decrease when the height grows.
C11_inland_limit_formula ==
    pc \in {"rule_sector", "rule_done"} =>
        /\ 10 * inland_limit_m =
                3048 * (IF 20 * building_height_ft >= 600
                        THEN 20 * building_height_ft ELSE 600)
        /\ inland_limit_m >= 182880
        /\ \A h \in RuleHeights :
                h <= building_height_ft => InlandLimit(h) <= inland_limit_m

\* C11 witness: a negative height, for which the limit is the floor.
C11_witness ==
    /\ pc = "rule_sector"
    /\ building_height_ft = -10
    /\ inland_limit_m = 182880

\* the eight fields of the dict of lines 438-447
ResultFields ==
    {"exposure_category", "distance_to_water_boundary_m", "inland_limit_m",
     "sector_results", "building_density_per_km2", "roughness_index",
     "landcover_mix", "notes"}

\* C12: every call of decide_exposure ends either with a result that has
\* all eight fields or with an InputError; no other exception leaves it,
\* whatever the map service answers.
C12_result_or_input_error ==
    pc = "done" =>
        \/ /\ outcome = "returned"
           /\ Len(result) = 1
           /\ DOMAIN result[1] = ResultFields
        \/ /\ outcome = "raised"
           /\ error = "InputError"

\* some way of the response adds a positive area to the total of a label
ClassifiedArea(data) ==
    /\ data # EmptyResult
    /\ \E k \in DOMAIN data.ways :
        LET w == data.ways[k]
        IN  FirstMatch(w.tags, 1) # 0 /\ ClosedRing(w) /\ w.valid /\ w.area > 0

\* C13: each land-cover proportion is the summed area of its label divided
\* by the total classified area; every proportion lies in [0, 1]; the
\* proportions sum to 1 when some area is classified and to 0 otherwise.
C13_proportions_of_classified_area ==
    pc = "frag_mix" =>
        LET totals == LandcoverTotals(input)
            total == SumOver(totals, Labels)
        IN  /\ DOMAIN mix.num = Labels
            /\ mix.den > 0
            /\ \A k \in Labels : 0 <= mix.num[k] /\ mix.num[k] <= mix.den
            /\ total > 0 =>
                    \A k \in Labels : mix.num[k] * total = totals[k] * mix.den
            /\ SumOver(mix.num, Labels) =
                    IF ClassifiedArea(input) THEN mix.den ELSE 0

\* C13 witness: a residential ring of area 2 and a wood of area 1 give the
\* proportions 2/3 and 1/3.
C13_witness ==
    /\ pc = "frag_mix"
    /\ ClassifiedArea(input)
    /\ Len(input.ways) = 2
    /\ mix.num["residential"] = 2
    /\ mix.num["forest"] = 1
    /\ mix.den = 3

\* the mix of two thirds residential and one third forest
TwoToOne ==
    /\ DOMAIN mix.num = Labels
    /\ mix.den = 3
    /\ mix.num["residential"] = 2
    /\ mix.num["forest"] = 1
    /\ \A k \in Labels \ {"residential", "forest"} : mix.num[k] = 0

\* C14: the roughness index of a mix is the sum over its labels of
\* proportion times score, a label outside the table scoring 0.5; for two
\* thirds residential and one third forest it is 0.867 to three decimals,
\* and when D does not qualify the category is then B for every density.
C14_roughness_is_weighted_sum ==
    (pc \in {"rule_rough", "rule_classified"} /\ DOMAIN mix.num # {}) =>
        LET weighted == [k \in DOMAIN mix.num |->
                            (IF k \in Labels THEN ROUGHNESS_SCORE[k] ELSE 50)
                                * mix.num[k]]
        IN  /\ r_index.den > 0
            /\ r_index.num * mix.den =
                    r_index.den * SumOver(weighted, DOMAIN mix.num)
            /\ TwoToOne =>
                /\ 3 * r_index.num = 260 * r_index.den
                /\ RoundDiv(10 * r_index.num, r_index.den) = 867
                /\ (pc = "rule_classified" /\ ~qualifies_D) => exposure = "B"

\* C14 witness: two thirds residential and one third forest, no building
\* at all and no qualifying sector: Exposure B.
C14_witness ==
    /\ pc = "rule_classified"
    /\ TwoToOne
    /\ dens.num = 0
    /\ ~qualifies_D
    /\ 3 * r_index.num = 260 * r_index.den
    /\ exposure = "B"

\* C15: a call whose inland limit is below the distance d to the water
\* boundary never returns D, whatever its sectors, density and land cover,
\* so that lowering the limit of a call classified D below d, all else
\* fixed, flips the category away from D.
C15_limit_below_distance_not_D ==
    (Returned /\ d_water_m # NoDistance /\ inland_limit_m < d_water_m) =>
        /\ exposure # "D"
        /\ result[1].exposure_category # "D"

\* C15 witness: a call with H = 30 ft at 182.98 m from the water boundary,
\* with a sector that qualifies under the limit of H = 40 ft, is not D.
C15_witness ==
    /\ Returned
    /\ building_height_ft = 30
    /\ d_water_m = 182980
    /\ inland_limit_m < d_water_m
    /\ \E k \in DOMAIN sector_results :
        SectorQualifies(sector_results[k].fetch_m, d_water_m, InlandLimit(40))
    /\ exposure \in {"B", "C"}

\* C17: in one call each of the three queries (water, buildings, land
\* cover) is sent exactly once, a failed one is not sent again and gives
\* the empty result, and the call ends with three requests made whatever
\* their outcomes.
C17_three_requests_each_once ==
    /\ Len(requests) <= 3
    /\ \A k \in DOMAIN requests :
        /\ requests[k].query = <<"water", "buildings", "landcover">>[k]
        /\ requests[k].net # "ok" => requests[k].empty
    /\ pc = "done" => Len(requests) = 3

\* C18: fetch_water_polys gives None exactly when no valid polygon was
\* assembled, which is when the response has no valid closed way; otherwise
\* the topology is made of valid polygons only, every valid closed way
\* among them, and an invalid ring is in none of them.
C18_none_iff_no_valid_polygon ==
    pc = "frag_water" =>
        /\ water_polys \in {"None", "topology"}
        /\ water_polys = "None" <=> polys = <<>>
        /\ water_polys = "None" <=>
                ~ \E k \in DOMAIN InputWays :
                    ClosedRing(InputWays[k]) /\ InputWays[k].valid
        /\ \A j \in DOMAIN polys :
            /\ InputWays[polys[j].outer].valid
            /\ \A h \in DOMAIN polys[j].holes :
                InputWays[polys[j].holes[h]].valid
        /\ \A k \in DOMAIN InputWays :
            (ClosedRing(InputWays[k]) /\ InputWays[k].valid) =>
                \E j \in DOMAIN polys : polys[j] = Polygon(k, <<>>, "way")

\* C18 witness: an invalid closed way and a valid one give a topology of
\* the valid one alone.
C18_witness ==
    /\ pc = "frag_water"
    /\ Len(InputWays) = 2
    /\ ClosedRing(InputWays[1]) /\ ~InputWays[1].valid
    /\ water_polys = "topology"
    /\ polys = << Polygon(2, <<>>, "way") >>

\* C19: a way gives a polygon only if the points left of its node
\* references once those that do not resolve are dropped are at least 4 and
\* the first equals the last; any other way gives nothing to the water
\* polygons nor to the land-cover totals, and raises nothing.
C19_only_closed_ways_contribute ==
    pc \in {"frag_water", "frag_mix"} =>
        LET Ring(w) ==
                LET pts == Resolve(w.nodes, ResponseNodes)
                IN  Len(pts) >= 4 /\ pts[1] = pts[Len(pts)]
            LabelOf(w) ==
                IF FirstMatch(w.tags, 1) = 0 THEN "none"
                ELSE LANDCOVER_TAGS[FirstMatch(w.tags, 1)].name
        IN  /\ error = "none"
            /\ \A j \in DOMAIN polys :
                /\ Ring(InputWays[polys[j].outer])
                /\ \A h \in DOMAIN polys[j].holes :
                    Ring(InputWays[polys[j].holes[h]])
            /\ pc = "frag_mix" =>
                \A k \in Labels :
                    (\A n \in DOMAIN InputWays :
                        LabelOf(InputWays[n]) = k => ~Ring(InputWays[n]))
                            => mix.num[k] = 0

\* C19 witness: of a way closed once its unresolved reference is dropped
\* and an open way of four points, only the first gives a polygon.
C19_witness ==
    /\ pc = "frag_water"
    /\ Len(InputWays) = 2
    /\ InputWays[1].nodes = <<1, 2, 9, 3, 4, 1>>
    /\ InputWays[2].nodes = <<1, 2, 3, 4>>
    /\ polys = << Polygon(1, <<>>, "way") >>

\* C20: for a multipolygon relation with at least two outer rings and at
\* least one inner ring, only the polygon of the first outer ring has
\* holes, and every other outer ring becomes a polygon without holes.
C20_holes_on_first_outer_only ==
    (pc = "frag_water" /\ input # EmptyResult) =>
        \A n \in DOMAIN input.rels :
            LET r == input.rels[n]
                outers == MemberRings(input.ways, r.members, "outer", 1)
                inners == MemberRings(input.ways, r.members, "inner", 1)
            IN  (r.type = "multipolygon" /\ Len(outers) >= 2 /\ Len(inners) >= 1) =>
                    /\ \A j \in DOMAIN polys :
                        (polys[j].via = "relation" /\ polys[j].holes # <<>>)
                            => polys[j].outer = outers[1]
                    /\ \A k \in 2 .. Len(outers) :
                        \E j \in DOMAIN polys :
                            polys[j] = Polygon(outers[k], <<>>, "relation")

\* C21: building_density_per_km2 is the number of building ways divided by
\* pi r^2 in km2 for a positive radius, and 0 for every radius that is zero
\* or negative, whatever the number of buildings.
C21_density_zero_unless_radius_positive ==
    pc = "frag_density" =>
        /\ radius_m > 0 =>
                /\ dens.num = BuildingWays(input) * 10000
                /\ dens.den = (31416 * radius_m * radius_m) \div 100
        /\ radius_m <= 0 => dens.num = 0

\* the label of a ring by its tags, entry by entry in the order of lines
\* 241-249
LabelByTags(tags) ==
    CASE tags.natural = "wood"        -> "forest"
      [] tags.landuse = "forest"      -> "forest"
      [] tags.landuse = "farmland"    -> "farmland"
      [] tags.landuse = "meadow"      -> "meadow"
      [] tags.landuse = "residential" -> "residential"
      [] tags.landuse = "industrial"  -> "industrial"
      [] tags.landuse = "commercial"  -> "commercial"
      [] OTHER                        -> "none"

\* the area of the valid closed rings among the ways from n on whose label
\* by their tags is k
RECURSIVE AreaLabelled(_, _, _)
AreaLabelled(ways, k, n) ==
    IF n > Len(ways) THEN 0
    ELSE (IF /\ LabelByTags(ways[n].tags) = k
             /\ ClosedRing(ways[n])
             /\ ways[n].valid
          THEN ways[n].area ELSE 0)
            + AreaLabelled(ways, k, n + 1)

\* C26: a closed land-cover ring adds its area to one label total only,
\* that of the first entry of LANDCOVER_TAGS its tags match (natural=wood
\* with landuse=residential counts as forest only), and a ring that matches
\* no entry adds to none: each total is the area of the rings so labelled.
C26_first_matching_label_only ==
    pc = "frag_mix" =>
        LET area == [k \in Labels |-> AreaLabelled(InputWays, k, 1)]
            all == SumOver(area, Labels)
        IN  \A k \in Labels :
                IF all > 0
                THEN mix.num[k] * all = area[k] * mix.den
                ELSE mix.num[k] = 0

\* C26 witness: a ring tagged natural=wood and landuse=residential beside
\* a ring that matches no entry: all the classified area is forest.
C26_witness ==
    /\ pc = "frag_mix"
    /\ Len(InputWays) = 2
    /\ InputWays[1].tags = Tags("wood", "residential")
    /\ InputWays[2].tags = Tags("none", "grass")
    /\ ClosedRing(InputWays[2])
    /\ mix.num["forest"] = 1
    /\ mix.den = 1
    /\ mix.num["residential"] = 0

\* C27: every fetch of sector_over_water_fetch_m is a multiple of the step
\* of 200 m between 0 and 200 * floor(max_check_m / 200), 10 000 m here; so
\* a sector reaches 1609 m exactly when the samples at 200, 400, ..., 1800 m
\* are all over water, and 1600 m of water in a row does not qualify.
C27_fetch_multiple_of_step ==
    /\ Scanned =>
        /\ scan.fetch % 200000 = 0
        /\ 0 <= scan.fetch
        /\ scan.fetch <= 200000 * (max_check_m \div 200000)
        /\ fetch_m = scan.fetch
        /\ fetch_m >= 1609000 <=> (1 .. 9) \subseteq scan.inside
        /\ (1 .. 8) \subseteq scan.inside /\ 9 \notin scan.inside
                => ~SectorQualifies(fetch_m, d_water_m, inland_limit_m)
    /\ \A k \in DOMAIN sector_results :
        /\ sector_results[k].fetch_m % 200000 = 0
        /\ sector_results[k].fetch_m \in 0 .. 10000000

\* C27 witness: one sector with water for exactly 1600 m, within the inland
\* limit of the water boundary, and no sector qualifies.
C27_witness ==
    /\ Scanned
    /\ sectors = 1
    /\ scan.inside = Profile(8, FALSE)
    /\ scan.fetch = 1600000
    /\ d_water_m # NoDistance
    /\ d_water_m <= inland_limit_m
    /\ ~qualifies_D

\* C23: the notes of a result start with the entry of the rule that fired,
\* which is the over-water rule iff the category is D, the roughness or
\* density rule iff it is B and the open/suburban rule iff it is C; then
\* come the distance note, there iff the distance is defined, the density
\* and roughness note, and the land-cover note, in that order.
C23_notes_rule_first_then_measurements ==
    Returned =>
        LET ns == result[1].notes
            cat == result[1].exposure_category
        IN  /\ Len(ns) >= 3
            /\ ns[1] = "over_water_fetch_within_inland_extent_exposure_D" <=> cat = "D"
            /\ ns[1] = "roughness_density_threshold_met_exposure_B" <=> cat = "B"
            /\ ns[1] = "open_suburban_mix_below_thresholds_exposure_C" <=> cat = "C"
            /\ IF result[1].distance_to_water_boundary_m # NoDistance
               THEN Tail(ns) = << "distance_to_water_boundary_and_inland_limit",
                                  "building_density_and_roughness_index",
                                  "land_cover_mix" >>
               ELSE Tail(ns) = << "building_density_and_roughness_index",
                                  "land_cover_mix" >>

\* C23 witness: a call classified D, with its four notes.
C23_witness ==
    /\ Returned
    /\ result[1].exposure_category = "D"
    /\ result[1].distance_to_water_boundary_m # NoDistance
    /\ Len(result[1].notes) = 4
    /\ result[1].notes[2] = "distance_to_water_boundary_and_inland_limit"

\* the least of a set of numbers
LeastOf(S) == CHOOSE v \in S : \A o \in S : v <= o

\* C24: distance_to_water_boundary_m is None exactly when the water
\* topology is absent; with a topology it is the distance to the nearest
\* point of the boundary, so that a point inside a water polygon gets the
\* distance to its nearest shore, which is positive, and not 0.
C24_distance_none_iff_no_topology ==
    pc = "frag_point" =>
        /\ d_water_m = NoDistance <=> water_polys = "None"
        /\ contained => d_water_m > 0
        /\ (contained /\ Len(polys) = 1 /\ polys[1].holes = <<>>) =>
                LET ring == RingPoints(InputWays[polys[1].outer])
                IN  d_water_m = 111000 * LeastOf(
                        { pt[1] - Least(ring, 1), Greatest(ring, 1) - pt[1],
                          pt[2] - Least(ring, 2), Greatest(ring, 2) - pt[2] })

\* C24 witness: a point inside the only water polygon, 0.003 degrees from
\* its nearest shore.
C24_witness ==
    /\ pc = "frag_point"
    /\ polys = << Polygon(1, <<>>, "way") >>
    /\ pt = <<5, 3>>
    /\ contained
    /\ d_water_m = 333000

\* C25: a point inside an inner ring of a multipolygon relation that has an
\* outer ring, and inside no way of the response other than that inner ring
\* and the outer rings of the relation, is not contained in the topology.
C25_inner_ring_excluded ==
    (pc = "frag_point" /\ input # EmptyResult) =>
        \A n \in DOMAIN input.rels :
            LET r == input.rels[n]
                outers == MemberRings(input.ways, r.members, "outer", 1)
                inners == MemberRings(input.ways, r.members, "inner", 1)
                Among(seq) == { seq[k] : k \in DOMAIN seq }
            IN  \A h \in Among(inners) :
                    ( /\ r.type \in {"multipolygon", "boundary"}
                      /\ \E o \in Among(outers) :
                            RingWithin(RingPoints(input.ways[h]), RingPoints(input.ways[o]))
                      /\ PointInRing(pt, RingPoints(input.ways[h]))
                      /\ \A w \in DOMAIN input.ways :
                            (ClosedRing(input.ways[w]) /\ PointInRing(pt, RingPoints(input.ways[w])))
                                => w \in {h} \cup Among(outers) )
                        => ~contained

\* C22: analyze_one_core returns whenever the geocoder, the reverse geocoder
\* and decide_exposure return, whatever the wind service did, with the
\* exposure decide_exposure gave and a wind_speed chosen in a fixed order:
\* the value of the service when its lookup gave one, else the entry of the
\* static table for the (state, county) parsed from the address, else the
\* unknown marker without a speed.
ServiceValue == env.wind.kind = "200" /\ env.wind.v \in {"170", "150"}
C22_wind_speed_by_fallback_order ==
    pc = "analyze_done" =>
        /\ outcome = "returned"
            <=> (env.geo = "ok" /\ env.rev = "ok" /\ env.exposure # "raises")
        /\ outcome = "returned" =>
            LET wind == out[1].wind_speed
                key == parse_state_county(UseAddr(env))
            IN  /\ out[1].exposure_estimate = env.exposure
                /\ IF ServiceValue
                   THEN wind = [Vult_mph |-> Float(env.wind.v), source |-> "url"]
                   ELSE IF key \in DOMAIN WINDSPEED_FALLBACK
                        THEN wind = [Vult_mph |-> WINDSPEED_FALLBACK[key],
                                     source |-> "fallback_table"]
                        ELSE wind = [Vult_mph |-> NoSpeed, source |-> "verify"]

\* C22 witnesses: the wind service raised and the analysis returned the
\* speed of the table; and the service failed for an address outside the
\* table and the analysis returned the unknown marker
C22_witness ==
    /\ pc = "analyze_done" /\ outcome = "returned"
    /\ env.wind.kind = "raises"
    /\ out[1].wind_speed = [Vult_mph |-> 180, source |-> "fallback_table"]
    /\ out[1].exposure_estimate = "D"

\* C30: the CSV batch holds one row per input address in the order of the
\* input, an {address, error} row exactly for an address whose analysis
\* raised, and main writes all of these rows, to the file or as JSON,
\* whichever addresses failed and with or without pandas.
C30_rows_in_order ==
    /\ Len(rows) <= Len(addrs)
    /\ \A k \in 1 .. Len(rows) :
        /\ rows[k].address = k
        /\ ("error" \in DOMAIN rows[k]) <=> (addrs[k].geo = "raises")
C30_all_rows_written ==
    (pc = "batch_done" /\ addrs # <<>>) =>
        /\ C30_rows_in_order
        /\ Len(rows) = Len(addrs)
        /\ outcome = "returned"
        /\ written.rows = rows

\* C28: for a height and a wind column of the lists, every zone with a chart
\* value gets the pattern with the smallest allowable_psf that is at least
\* the magnitude of the required pressure, never one below it, and gets
\* 'engineering_required' exactly when no allowable reaches the magnitude.
ZoneSet == { ZONES[k] : k \in 1 .. Len(ZONES) }
Selected ==
    /\ pc \in {"fpa_ran", "fpa_done"}
    /\ fpa_result.status = "ok"
    /\ fpa_in.height \in HEIGHTS
    /\ fpa_in.wind_col \in WIND_COLS
Required(z) ==
    ChartValue(Grid(fpa_in.fpa.charts, fpa_in.exposure, z), fpa_in.height,
               fpa_in.wind_col)
Magnitude(z) == IF Required(z) < 0 THEN 0 - Required(z) ELSE Required(z)
Reaching(z) ==
    { k \in 1 .. Len(fpa_in.fpa.allowables) :
        fpa_in.fpa.allowables[k].allowable_psf >= Magnitude(z) }
C28_smallest_allowable_reaching_required ==
    Selected =>
        \A z \in ZoneSet :
            Required(z) # NoValue =>
                LET e == fpa_result.zone_results[z]
                IN  /\ e.status \in {"ok", "engineering_required"}
                    /\ e.status = "engineering_required" <=> Reaching(z) = {}
                    /\ e.status = "ok" =>
                        /\ e.allowable_psf >= Magnitude(z)
                        /\ \E k \in Reaching(z) :
                            /\ fpa_in.fpa.allowables[k].system = e.pattern
                            /\ fpa_in.fpa.allowables[k].allowable_psf = e.allowable_psf
                        /\ \A k \in Reaching(z) :
                            e.allowable_psf <= fpa_in.fpa.allowables[k].allowable_psf

\* C28 witnesses: one selection gave Zone 1 the weakest pattern, Zone 2 a
\* stronger one that just reaches 45 psf, and Zone 3 none
C28_witness ==
    /\ Selected
    /\ fpa_result.zone_results["Zone 1"].status = "ok"
    /\ fpa_result.zone_results["Zone 1"].allowable_psf = 30
    /\ fpa_result.zone_results["Zone 2"].status = "ok"
    /\ fpa_result.zone_results["Zone 2"].allowable_psf = 45
    /\ fpa_result.zone_results["Zone 2"].required_psf = 45
    /\ fpa_result.zone_results["Zone 3"].status = "engineering_required"

\* C29: when run_once returns status 'ok', and the endpoint so returns its
\* zone_results, these hold one entry for each of the three zones; a height
\* or a wind column outside the lists gives another status.
C29_ok_has_three_zones ==
    pc = "fpa_done" /\ fpa_result.status = "ok" =>
        /\ DOMAIN fpa_zone_results = ZoneSet
        /\ fpa_in.height \in HEIGHTS
        /\ fpa_in.wind_col \in WIND_COLS

====
